---- MODULE Spec2Model ----
(***************************************************************************)
(* Veo Studio: the request builder and generation orchestrator             *)
(* (generateVideo, in its two copies services/geminiService.ts and         *)
(* unnamed/part_000) and the application state machine that drives it      *)
(* (App.tsx).                                                              *)
(*                                                                         *)
(* Conventions.  An optional value (null / undefined / field absent) is a  *)
(* sequence of length at most one: None is absent, Some(x) is present.     *)
(* A text (prompt, error message, URI) is a sequence of non-empty pieces,  *)
(* so the empty string is << >>, concatenation is \o and                   *)
(* String.prototype.includes is contiguous-subsequence search.             *)
(***************************************************************************)
EXTENDS Integers, Sequences, FiniteSets, Bags, TLC

VARIABLES
  appState,           \* App.tsx:23
  videoUrl,           \* App.tsx:24
  errorMessage,       \* App.tsx:25
  lastConfig,         \* App.tsx:26
  lastVideoObject,    \* App.tsx:29
  lastVideoBlob,      \* App.tsx:30
  showApiKeyDialog,   \* App.tsx:31
  pendingParams,      \* App.tsx:32
  initialFormValues,  \* App.tsx:34
  aistudio,           \* whether window.aistudio exists in this host
  apiKey,             \* process.env.API_KEY as the page currently sees it
  variant,            \* which copy of generateVideo the build bundles
  remote,             \* what the remote service and the network can answer
  room,               \* how many handler invocations the run lets overlap
  mount,              \* position of the mount-time checkApiKey effect
  calls               \* the bag of asynchronous handler invocations in progress

vars == <<appState, videoUrl, errorMessage, lastConfig, lastVideoObject,
          lastVideoBlob, showApiKeyDialog, pendingParams, initialFormValues,
          aistudio, apiKey, variant, remote, room, mount, calls>>

-----------------------------------------------------------------------------
(* Bounds of the model *)

\* handler invocations in progress at once: in the runs of Spec, of RaceSpec
MaxCalls == 1
MaxRaceCalls == 2
\* "not done" answers of the remote service to one call, in the direct runs
MaxPolls == 2

-----------------------------------------------------------------------------
(* Optional values and texts *)

None == << >>
Some(x) == <<x>>
IsSome(o) == Len(o) > 0
Get(o) == o[1]

Str(s) == IF s = "" THEN << >> ELSE <<s>>

\* String.prototype.includes
Includes(text, sub) ==
  \E i \in 0..(Len(text) - Len(sub)) : SubSeq(text, i + 1, i + Len(sub)) = sub

\* String.prototype.toLowerCase, on the pieces error messages are made of
LowerPiece(w) ==
  CASE w = "Permission" -> "permission"
    [] w = "PERMISSION" -> "permission"
    [] w = "DENIED" -> "denied"
    [] w = "UNAUTHENTICATED" -> "unauthenticated"
    [] w = "Unauthenticated" -> "unauthenticated"
    [] w = "API" -> "api"
    [] w = "API_KEY_INVALID" -> "api_key_invalid"
    [] w = "An" -> "an"
    [] w = "Key" -> "key"
    [] w = "Requested" -> "requested"
    [] w = "No" -> "no"
    [] w = "Failed" -> "failed"
    [] w = "Please" -> "please"
    [] w = "Quota" -> "quota"
    [] w = "URI" -> "uri"
    [] OTHER -> w

toLowerCase(text) == [i \in 1..Len(text) |-> LowerPiece(text[i])]

\* String.prototype.trim, on the credential values of the model
trim(s) == IF s = " " THEN "" ELSE s

\* template-literal formatting of a number
NumToStr(n) ==
  CASE n = 0 -> "0"
    [] n = 50 -> "50"
    [] n = 94 -> "94"
    [] n = 200 -> "200"
    [] n = 403 -> "403"
    [] n = 500 -> "500"
    [] OTHER -> "n"

-----------------------------------------------------------------------------
(* types.ts enumerations, as used by the sources *)

Modes == {"TEXT_TO_VIDEO", "FRAMES_TO_VIDEO", "REFERENCES_TO_VIDEO",
          "SOCIAL_PROMO", "EXTEND_VIDEO"}

Variants == {"geminiService", "part_000"}

\* process.env.API_KEY: undefined, "", whitespace only, or a key
Keys == {None, Some(""), Some(" "), Some("KEY")}

ImgA == [base64 |-> "AAAA", type |-> "image/png"]
ImgB == [base64 |-> "BBBB", type |-> "image/jpeg"]

VideoGood == [uri |-> <<"https://host/files/v1:download?alt", "%3D", "media">>]
VideoBad  == [uri |-> <<"https://host/files/v2", "%", "zz">>]

-----------------------------------------------------------------------------
(* Error messages *)

\* part_000:22
MissingKeyMsg ==
  <<"API", "key", "is", "missing", "or", "empty.", "Please", "select", "a",
    "valid", "paid", "API", "key.">>

\* thrown by the SDK constructor, App.tsx:91-93
SdkKeyMsg ==
  <<"An", "API", "Key", "must", "be", "set", "when", "running", "in", "a",
    "browser">>

\* geminiService.ts:104, part_000:112
ValidationMsg ==
  <<"An", "input", "video", "object", "is", "required", "to", "extend", "a",
    "video.">>

\* geminiService.ts:118,133, part_000:126,141
NoVideosMsg == <<"No", "videos", "generated.">>

\* geminiService.ts:126, part_000:134
DownloadMsg(status) == <<"Failed", "to", "fetch", "video:", NumToStr(status)>>

\* decodeURIComponent on a malformed escape
UriErrorMsg == <<"URI", "malformed">>

\* failures the remote service answers a submit or a poll with
EntityNotFoundMsg == <<"Requested", "entity", "was", "not", "found", ".">>
KeyNotValidMsg ==
  <<"API", "key", "not", "valid", ".", "Please", "pass", "a", "valid", "API", "key", ".">>
PermissionMsg == <<"PERMISSION", "DENIED">>
UnauthenticatedMsg == <<"Request", "is", "UNAUTHENTICATED">>
QuotaMsg == <<"Quota", "exceeded">>

RemoteFailures ==
  {EntityNotFoundMsg, KeyNotValidMsg, PermissionMsg, UnauthenticatedMsg, QuotaMsg}

\* the fetch promise itself rejecting (network failure)
NetworkMsg == <<"Failed", "to", "fetch">>

-----------------------------------------------------------------------------
(* Request builder: generateVideo, from the config to the payload *)

SetField(f, name, value) == (name :> value) @@ f

\* params.x || d, for a string and for a number
TextOrDefault(o, d) == IF IsSome(o) /\ Get(o) # "" THEN Get(o) ELSE d

NumberOrDefault(o, d) == IF IsSome(o) /\ Get(o) # 0 THEN Get(o) ELSE d

PromoTemplate(v, pText, pPrice, pct, prompt) ==
  IF v = "geminiService"
  THEN <<"Motion graphic promo video based on the provided poster. In the blue empty area at the bottom, animate a bold, high-contrast blinking text that says \"",
         pText,
         "\". Below it, add the subtitle \"",
         pPrice,
         "\". Below that, animate a sleek, modern glowing loading progress bar filled to exactly ",
         pct, "%",
         ", with the text \"ESGOTANDO UM LOADING ",
         pct, "%",
         "\" next to it. The style should be vibrant, professional, and matching the colors (orange, white, blue) of the base image. Make the text blinking effect high-energy. ">>
       \o (IF prompt # "" THEN <<" Additional details: ", prompt>> ELSE << >>)
  ELSE <<"Cinematic social media promo video. Use the provided poster as the background and visual base. In the blue empty area at the bottom, add a high-impact, bold blinking text that says \"",
         pText,
         "\". Directly below it, add the team name \"",
         pPrice,
         "\". Below the text, animate a glowing, high-tech loading bar that is exactly ",
         pct, "%",
         " full. Next to the loading bar, add the text \"ESGOTANDO UM LOADING ",
         pct, "%",
         "\". The style should be energetic, matching the summer/concert theme with vibrant glows and smooth motion. Ensure the main promotional text pulses with a \"Buy Now\" urgency. ">>
       \o (IF prompt # "" THEN <<" Additional user instructions: ", prompt>> ELSE << >>)

FinalPrompt(params, v) ==
  IF params.mode = "SOCIAL_PROMO"
  THEN PromoTemplate(v,
                     TextOrDefault(params.promoText, "INGRESSO PROMOCIONAL R$50"),
                     TextOrDefault(params.promoPrice, "EQUIPE CERTA"),
                     NumToStr(NumberOrDefault(params.promoPercent, 94)),
                     params.prompt)
  ELSE Str(params.prompt)

ImagePayload(img) == [imageBytes |-> img.base64, mimeType |-> img.type]

\* the looping flag ignored: the end frame is always the config's endFrame
FinalEndFrameIgnoresLoop(params) == params.endFrame

\* geminiService.ts:73-75
FinalEndFrame(params) ==
  IF params.isLooping THEN params.startFrame ELSE params.endFrame

\* the list built with unshift in place of push: the order is reversed
ReferenceImagesPayloadReversed(params) ==
  IF IsSome(params.referenceImages)
  THEN [i \in 1..Len(Get(params.referenceImages)) |->
          [image |-> ImagePayload(Get(params.referenceImages)
                                    [Len(Get(params.referenceImages)) + 1 - i]),
           referenceType |-> "ASSET"]]
  ELSE << >>

\* geminiService.ts:83-95
ReferenceImagesPayload(params) ==
  IF IsSome(params.referenceImages)
  THEN [i \in 1..Len(Get(params.referenceImages)) |->
          [image |-> ImagePayload(Get(params.referenceImages)[i]),
           referenceType |-> "ASSET"]]
  ELSE << >>

\* aspectRatio copied whatever the mode
IncludesAspectRatioAlways(params) == TRUE

IncludesAspectRatio(params) == params.mode # "EXTEND_VIDEO"

PayloadConfig(params) ==
  LET c0 == [numberOfVideos |-> 1, resolution |-> params.resolution]
      c1 == IF IncludesAspectRatio(params)
            THEN SetField(c0, "aspectRatio", params.aspectRatio) ELSE c0
      c2 == IF params.mode = "FRAMES_TO_VIDEO" /\ IsSome(FinalEndFrame(params))
            THEN SetField(c1, "lastFrame", ImagePayload(Get(FinalEndFrame(params))))
            ELSE c1
  IN  IF params.mode = "REFERENCES_TO_VIDEO" /\ Len(ReferenceImagesPayload(params)) > 0
      THEN SetField(c2, "referenceImages", ReferenceImagesPayload(params))
      ELSE c2

\* the payload as it stands at the submit call (geminiService.ts:23-108)
Payload(params, v) ==
  LET p0 == [model |-> params.model, config |-> PayloadConfig(params)]
      p1 == IF params.mode \in {"SOCIAL_PROMO", "FRAMES_TO_VIDEO"} /\ IsSome(params.startFrame)
            THEN SetField(p0, "image", ImagePayload(Get(params.startFrame))) ELSE p0
      p2 == IF FinalPrompt(params, v) # << >>
            THEN SetField(p1, "prompt", FinalPrompt(params, v)) ELSE p1
  IN  IF params.mode = "EXTEND_VIDEO" /\ IsSome(params.inputVideoObject)
      THEN SetField(p2, "video", Get(params.inputVideoObject))
      ELSE p2

\* the else branch with its throw left out
MissingExtendSourceNeverThrows(params) == FALSE

\* the else branch that throws (geminiService.ts:100-105)
MissingExtendSource(params) ==
  params.mode = "EXTEND_VIDEO" /\ ~IsSome(params.inputVideoObject)

-----------------------------------------------------------------------------
(* generateVideo: one invocation, from its call to its settlement *)

\* the suspension of the poll loop, in milliseconds
PollIntervalMs == 10000

\* what the transport has been asked to do by this invocation, and how many
\* object URLs it has created
NoCounts == [submit |-> 0, poll |-> 0, fetch |-> 0, sleep |-> 0, handle |-> 0]

\* what the environment did to this invocation: how often it answered "not
\* done", the remote failure it raised, the body it delivered
NoObserved == [notDone |-> 0, fault |-> None, body |-> None]

\* a handler invocation that has not run yet; refused is what the key query of
\* this handleGenerate call came to: None when it made no query, Some(TRUE) when
\* the provider said that no key is selected, Some(FALSE) otherwise
NewCall ==
  [pc |-> "new", direct |-> FALSE, params |-> None, skip |-> FALSE, cap |-> None,
   refused |-> None,
   key |-> None, sent |-> None, op |-> None, delay |-> 0, video |-> None,
   url |-> << >>, status |-> None, err |-> << >>, res |-> None,
   n |-> NoCounts, seen |-> NoObserved]

Bump(c, what) == [c EXCEPT !.n[what] = @ + 1]

\* a throw inside generateVideo: the promise rejects
Reject(c, msg) == [c EXCEPT !.pc = "rejected", !.err = msg]

\* part_000:18-23 checks the credential itself; geminiService.ts:21 leaves it
\* to the SDK constructor, which throws on a falsy key (App.tsx:91-92)
CredentialFailure(k, v) ==
  IF v = "part_000"
  THEN IF ~IsSome(k) \/ trim(Get(k)) = "" THEN MissingKeyMsg ELSE << >>
  ELSE IF ~IsSome(k) \/ Get(k) = "" THEN SdkKeyMsg ELSE << >>

\* the synchronous part of generateVideo, up to the await of the submit call
GenStart(c, k, v) ==
  LET c1 == [c EXCEPT !.key = k] IN
  IF CredentialFailure(k, v) # << >> THEN Reject(c1, CredentialFailure(k, v))
  ELSE IF MissingExtendSource(Get(c.params)) THEN Reject(c1, ValidationMsg)
  ELSE Bump([c1 EXCEPT !.pc = "submit", !.sent = Some(Payload(Get(c.params), v))],
            "submit")

\* a failed submit sent once more before giving up
OnRemoteFailureRetry(c, msg) ==
  IF c.pc = "submit" /\ c.n.submit < 2 THEN Bump(c, "submit") ELSE Reject(c, msg)

\* an awaited remote call rejects: no try/catch surrounds the awaits
OnRemoteFailure(c, msg) == Reject(c, msg)

\* decodeURIComponent
Malformed(uri) == \E i \in 1..Len(uri) : uri[i] = "%"

DecodePiece(w) ==
  CASE w = "%3D" -> "="
    [] w = "%26" -> "&"
    [] w = "%3F" -> "?"
    [] OTHER -> w

decodeURIComponent(uri) == [i \in 1..Len(uri) |-> DecodePiece(uri[i])]

\* the key appended to the artifact URL: the captured constant in part_000,
\* process.env.API_KEY read again in geminiService.ts
FetchKey(c, k, v) == IF v = "part_000" THEN c.key ELSE k

KeyText(k) == IF IsSome(k) THEN Str(Get(k)) ELSE <<"undefined">>

\* the emptiness test of the video list left out
HasNoVideosListOnly(op) ==
  \/ ~IsSome(op.response)
  \/ ~IsSome(Get(op.response).generatedVideos)

HasNoVideos(op) ==
  \/ ~IsSome(op.response)
  \/ ~IsSome(Get(op.response).generatedVideos)
  \/ Len(Get(Get(op.response).generatedVideos)) = 0

\* videos[0].video, undefined when there is no such element or field
FirstVideo(op) ==
  IF Len(Get(Get(op.response).generatedVideos)) = 0 THEN None
  ELSE Get(Get(op.response).generatedVideos)[1].video

\* reading .uri of undefined
TypeErrorMsg ==
  <<"Cannot", "read", "properties", "of", "undefined", "(reading", "'uri')">>

\* a do-while loop in place of the while loop: one poll whatever the submit says
LoopContinuesDoWhile(c, op) == ~op.done \/ c.n.poll = 0

\* the test of the poll loop (geminiService.ts:111)
LoopContinues(c, op) == ~op.done

\* the loop test on an operation just received, and what follows it up to
\* the next await (geminiService.ts:111-125)
OnOperation(c, op, k, v) ==
  LET c1 == [c EXCEPT !.op = Some(op)] IN
  IF LoopContinues(c, op)
  THEN Bump([c1 EXCEPT !.pc = "sleep", !.delay = PollIntervalMs], "sleep")
  ELSE IF HasNoVideos(op) THEN Reject(c1, NoVideosMsg)
  ELSE IF ~IsSome(FirstVideo(op)) THEN Reject(c1, TypeErrorMsg)
  ELSE IF Malformed(Get(FirstVideo(op)).uri) THEN Reject(c1, UriErrorMsg)
  ELSE Bump([c1 EXCEPT !.pc = "fetch",
                       !.video = FirstVideo(op),
                       !.url = decodeURIComponent(Get(FirstVideo(op)).uri)
                                 \o <<"&key=">> \o KeyText(FetchKey(c, k, v))],
            "fetch")

\* a client-side timeout: the call gives up when the timer fires
OnTimerTimesOut(c) == Reject(c, <<"Timed", "out", "waiting", "for", "the", "video">>)

\* the timer of the poll loop fires: the status query is sent
OnTimer(c) == Bump([c EXCEPT !.pc = "poll"], "poll")

\* every status below 500 taken for a success
IsOkBelow500(status) == status >= 200 /\ status <= 499

IsOk(status) == status >= 200 /\ status <= 299

\* the fetch answered with an HTTP status
OnFetchResponse(c, status) ==
  LET c1 == [c EXCEPT !.status = Some(status)] IN
  IF ~IsOk(status) THEN Reject(c1, DownloadMsg(status))
  ELSE [c1 EXCEPT !.pc = "blob"]

createObjectURL(blob) == <<"blob:", blob.bytes>>

\* res.blob() delivered the body: the object URL is created and the call resolves
OnBody(c, bytes) ==
  LET videoBlob == [bytes |-> bytes, type |-> "video/mp4"] IN
  Bump([c EXCEPT !.pc = "resolved",
                 !.res = Some([objectUrl |-> createObjectURL(videoBlob),
                               blob |-> videoBlob,
                               uri |-> decodeURIComponent(Get(c.video).uri),
                               video |-> Get(c.video)])],
       "handle")

-----------------------------------------------------------------------------
(* Configurations and the values the environment answers with *)

BaseConfig ==
  [mode |-> "TEXT_TO_VIDEO", prompt |-> "a cat", model |-> "veo-3.1",
   resolution |-> "720p", aspectRatio |-> "16:9", startFrame |-> None,
   endFrame |-> None, isLooping |-> FALSE, referenceImages |-> None,
   inputVideo |-> None, inputVideoObject |-> None, styleImage |-> None,
   promoText |-> None, promoPrice |-> None, promoPercent |-> None]

CfgText == BaseConfig
CfgPromo ==
  [BaseConfig EXCEPT !.mode = "SOCIAL_PROMO", !.prompt = "", !.resolution = "1080p",
                     !.aspectRatio = "9:16", !.startFrame = Some(ImgA),
                     !.promoPercent = Some(50)]
CfgExtendBare == [BaseConfig EXCEPT !.mode = "EXTEND_VIDEO", !.prompt = ""]
CfgExtend == [CfgExtendBare EXCEPT !.inputVideoObject = Some(VideoGood)]

\* what the form hands to onGenerate in the application runs
FormConfigs == {CfgText, CfgExtendBare}

\* what generateVideo is called with in the direct runs
DirectConfigs == {CfgText, CfgPromo, CfgExtendBare, CfgExtend}

\* every configuration the builder is exercised on
Configs ==
  [mode : Modes, prompt : {"", "a cat"}, model : {"veo-3.1"},
   resolution : {"720p", "1080p"}, aspectRatio : {"16:9", "9:16"},
   startFrame : {None, Some(ImgA)}, endFrame : {None, Some(ImgB)},
   isLooping : BOOLEAN,
   referenceImages : {None, Some(<< >>), Some(<<ImgA, ImgB>>)},
   inputVideo : {None}, inputVideoObject : {None, Some(VideoGood)},
   styleImage : {None},
   promoText : {None, Some(""), Some("PROMO")},
   promoPrice : {None, Some("TEAM")},
   promoPercent : {None, Some(0), Some(50)}]

PendingOp == [done |-> FALSE, response |-> None]
DoneOp(videos) == [done |-> TRUE, response |-> Some([generatedVideos |-> videos])]
DoneNoResponse == [done |-> TRUE, response |-> None]

DoneOps ==
  {DoneNoResponse, DoneOp(None), DoneOp(Some(<< >>)),
   DoneOp(Some(<<[video |-> None]>>)),
   DoneOp(Some(<<[video |-> Some(VideoGood)]>>)),
   DoneOp(Some(<<[video |-> Some(VideoBad)]>>)),
   DoneOp(Some(<<[video |-> Some(VideoGood)], [video |-> Some(VideoBad)]>>))}

\* the remote service of the direct runs
RichRemote ==
  [maxPending |-> MaxPolls, done |-> DoneOps, failures |-> RemoteFailures,
   statuses |-> {200, 403, 500}, bodies |-> {"mp4-bytes-1", "mp4-bytes-2"}]

\* the remote service of the application runs: it answers "not done" at most
\* once in a call
AppRemote ==
  [maxPending |-> 1,
   done |-> {DoneNoResponse, DoneOp(Some(<<[video |-> Some(VideoGood)]>>))},
   failures |-> RemoteFailures,
   statuses |-> {200, 403}, bodies |-> {"mp4-bytes-1"}]

\* the remote answers "not done" at most remote.maxPending times in one call
Ops(c) ==
  IF c.seen.notDone < remote.maxPending THEN remote.done \cup {PendingOp}
  ELSE remote.done

Answers == {"yes", "no", "throw"}

-----------------------------------------------------------------------------
(* The application: App.tsx *)

InitApp ==
  /\ appState = "IDLE"
  /\ videoUrl = None
  /\ errorMessage = None
  /\ lastConfig = None
  /\ lastVideoObject = None
  /\ lastVideoBlob = None
  /\ showApiKeyDialog = FALSE
  /\ pendingParams = None
  /\ initialFormValues = None

Init ==
  /\ InitApp
  /\ aistudio \in BOOLEAN
  /\ apiKey \in {None, Some("KEY")}
  /\ variant \in Variants
  /\ remote = AppRemote
  /\ room = MaxCalls
  /\ mount = IF aistudio THEN "pending" ELSE "done"
  /\ calls = EmptyBag

Running == BagToSet(calls)
HasRoom == BagCardinality(calls) < room
Without(c) == calls (-) SetToBag({c})
With(bag, c) == bag (+) SetToBag({c})

appVars == <<appState, videoUrl, errorMessage, lastConfig, lastVideoObject,
             lastVideoBlob, showApiKeyDialog, pendingParams, initialFormValues>>
envVars == <<aistudio, variant, remote, room>>

\* the ApiKeyDialog overlay covers the page while it is shown (App.tsx:225-227)
PageUsable == ~showApiKeyDialog
FormShown == PageUsable /\ appState = "IDLE"
ResultShown == PageUsable /\ appState = "SUCCESS" /\ IsSome(videoUrl)
ErrorShown ==
  /\ PageUsable
  /\ \/ appState = "SUCCESS" /\ ~IsSome(videoUrl)
     \/ appState = "ERROR" /\ IsSome(errorMessage) /\ Get(errorMessage) # << >>

\* handleGenerate from line 73 to the await of generateVideo; rest is the bag
\* of the other invocations
BeginAttempt(rest, p, skip, refused) ==
  /\ appState' = "LOADING"
  /\ errorMessage' = None
  /\ lastConfig' = Some(p)
  /\ initialFormValues' = None
  /\ calls' = With(rest, GenStart([NewCall EXCEPT !.params = Some(p), !.skip = skip,
                                                  !.refused = refused],
                                  apiKey, variant))

\* handleGenerate(p) with skipKeyCheck = false, up to its first await
StartGenerate(p) ==
  /\ HasRoom
  /\ IF aistudio
     THEN /\ calls' = With(calls, [NewCall EXCEPT !.pc = "keycheck", !.params = Some(p)])
          /\ UNCHANGED <<appState, errorMessage, lastConfig, initialFormValues>>
     ELSE BeginAttempt(calls, p, FALSE, None)
  /\ UNCHANGED <<videoUrl, lastVideoObject, lastVideoBlob, showApiKeyDialog,
                 pendingParams, envVars, apiKey, mount>>

\* the mount effect's hasSelectedApiKey settles
MountCheckReturns ==
  /\ mount = "pending"
  /\ \E ans \in Answers :
       showApiKeyDialog' = IF ans = "yes" THEN showApiKeyDialog ELSE TRUE
  /\ mount' = "done"
  /\ UNCHANGED <<appState, videoUrl, errorMessage, lastConfig, lastVideoObject,
                 lastVideoBlob, pendingParams, initialFormValues, envVars,
                 apiKey, calls>>

\* the form submits
Generate ==
  /\ FormShown
  /\ \E p \in FormConfigs \cup {initialFormValues[k] : k \in 1..Len(initialFormValues)} :
       StartGenerate(p)

\* generation started whatever the provider answers
ProceedsAfterKeyCheckAlways(ans) == TRUE

\* App.tsx:62-70: only the answer false stops handleGenerate; a query that
\* throws is logged and generation goes on
ProceedsAfterKeyCheck(ans) == ans # "no"

\* handleGenerate's hasSelectedApiKey settles
KeyCheckReturns ==
  \E c \in Running :
    /\ c.pc = "keycheck"
    /\ \E ans \in Answers :
         IF ~ProceedsAfterKeyCheck(ans)
         THEN /\ pendingParams' = c.params
              /\ showApiKeyDialog' = TRUE
              /\ calls' = Without(c)
              /\ UNCHANGED <<appState, errorMessage, lastConfig, initialFormValues>>
         ELSE /\ BeginAttempt(Without(c), Get(c.params), FALSE, Some(ans = "no"))
              /\ UNCHANGED <<pendingParams, showApiKeyDialog>>
    /\ UNCHANGED <<videoUrl, lastVideoObject, lastVideoBlob, envVars, apiKey, mount>>

\* the environment's record of what it answers this invocation with
SeeOp(c, op) == IF op.done THEN c ELSE [c EXCEPT !.seen.notDone = @ + 1]
SeeFault(c, msg) == [c EXCEPT !.seen.fault = Some([msg |-> msg, n |-> c.n])]
SeeBody(c, bytes) == [c EXCEPT !.seen.body = Some(bytes)]

\* a step of generateVideo, which touches nothing of the application
CallStep(c, d) ==
  /\ calls' = With(Without(c), d)
  /\ UNCHANGED <<appVars, envVars, apiKey, mount>>

SubmitReturns ==
  \E c \in Running :
    /\ c.pc = "submit"
    /\ \E op \in Ops(c) : CallStep(c, OnOperation(SeeOp(c, op), op, apiKey, variant))

SubmitFails ==
  \E c \in Running :
    /\ c.pc = "submit"
    /\ \E msg \in remote.failures : CallStep(c, OnRemoteFailure(SeeFault(c, msg), msg))

TimerFires ==
  \E c \in Running :
    /\ c.pc = "sleep"
    /\ CallStep(c, OnTimer(c))

PollReturns ==
  \E c \in Running :
    /\ c.pc = "poll"
    /\ \E op \in Ops(c) : CallStep(c, OnOperation(SeeOp(c, op), op, apiKey, variant))

PollFails ==
  \E c \in Running :
    /\ c.pc = "poll"
    /\ \E msg \in remote.failures : CallStep(c, OnRemoteFailure(SeeFault(c, msg), msg))

FetchReturns ==
  \E c \in Running :
    /\ c.pc = "fetch"
    /\ \E status \in remote.statuses : CallStep(c, OnFetchResponse(c, status))

FetchFails ==
  \E c \in Running :
    /\ c.pc = "fetch"
    /\ CallStep(c, OnRemoteFailure(SeeFault(c, NetworkMsg), NetworkMsg))

BodyReturns ==
  \E c \in Running :
    /\ c.pc = "blob"
    /\ \E bytes \in remote.bodies : CallStep(c, OnBody(SeeBody(c, bytes), bytes))

\* reading the response body fails
BodyFails ==
  \E c \in Running :
    /\ c.pc = "blob"
    /\ CallStep(c, OnRemoteFailure(SeeFault(c, NetworkMsg), NetworkMsg))

\* the then-branch of handleGenerate (App.tsx:79-84)
GenSucceeded ==
  \E c \in Running :
    /\ c.pc = "resolved" /\ ~c.direct
    /\ videoUrl' = Some(Get(c.res).objectUrl)
    /\ lastVideoBlob' = Some(Get(c.res).blob)
    /\ lastVideoObject' = Some(Get(c.res).video)
    /\ appState' = "SUCCESS"
    /\ pendingParams' = None
    /\ calls' = Without(c)
    /\ UNCHANGED <<errorMessage, lastConfig, showApiKeyDialog, initialFormValues,
                   envVars, apiKey, mount>>

\* the test for the service's own 'API key is missing' message left out
IsMissingKeySdkOnly(msg) == Includes(msg, <<"An", "API", "Key", "must", "be", "set">>)

\* the substring tests of the catch block (App.tsx:93-115)
IsMissingKey(msg) ==
  \/ Includes(msg, <<"An", "API", "Key", "must", "be", "set">>)
  \/ Includes(msg, <<"API", "key", "is", "missing">>)

IsEntityNotFound(msg) ==
  Includes(msg, <<"Requested", "entity", "was", "not", "found", ".">>)

\* the two case-insensitive tests made case-sensitive
IsAuthRejectedCaseSensitive(msg) ==
  \/ Includes(msg, <<"API_KEY_INVALID">>)
  \/ Includes(msg, <<"API", "key", "not", "valid">>)
  \/ Includes(msg, <<"permission", "denied">>)
  \/ Includes(msg, <<"unauthenticated">>)

IsAuthRejected(msg) ==
  \/ Includes(msg, <<"API_KEY_INVALID">>)
  \/ Includes(msg, <<"API", "key", "not", "valid">>)
  \/ Includes(toLowerCase(msg), <<"permission", "denied">>)
  \/ Includes(toLowerCase(msg), <<"unauthenticated">>)

\* the suppression applied to the attempts that did check the key
SuppressedWhenNotSkipped(msg, skip) == IsMissingKey(msg) /\ ~skip

\* the race suppression of App.tsx:94-101
Suppressed(msg, skip) == IsMissingKey(msg) /\ skip

shouldOpenDialog(msg) ==
  IsMissingKey(msg) \/ IsEntityNotFound(msg) \/ IsAuthRejected(msg)

userFriendlyMessage(msg) ==
  IF IsMissingKey(msg)
  THEN <<"API", "Key", "missing", ".", "Please", "select", "a", "valid", "paid",
         "API", "key", ".">>
  ELSE IF IsEntityNotFound(msg)
  THEN <<"Model", "or", "entity", "not", "found", ".", "Please", "ensure", "you",
         "have", "selected", "a", "valid,", "paid", "API", "key", ".">>
  ELSE IF IsAuthRejected(msg)
  THEN <<"A", "valid,", "paid", "API", "key", "is", "required", "for", "Veo", ".",
         "Please", "select", "one", "from", "the", "dialog", ".">>
  ELSE <<"Video", "generation", "failed:">> \o msg

\* the catch-branch of handleGenerate (App.tsx:85-124)
GenFailed ==
  \E c \in Running :
    /\ c.pc = "rejected" /\ ~c.direct
    /\ IF Suppressed(c.err, c.skip)
       THEN /\ appState' = "IDLE"
            /\ initialFormValues' = c.params
            /\ UNCHANGED <<errorMessage, pendingParams, showApiKeyDialog>>
       ELSE /\ errorMessage' = Some(userFriendlyMessage(c.err))
            /\ appState' = "ERROR"
            /\ IF shouldOpenDialog(c.err)
               THEN /\ pendingParams' = c.params
                    /\ showApiKeyDialog' = TRUE
               ELSE UNCHANGED <<pendingParams, showApiKeyDialog>>
            /\ UNCHANGED initialFormValues
    /\ calls' = Without(c)
    /\ UNCHANGED <<videoUrl, lastConfig, lastVideoObject, lastVideoBlob, envVars,
                   apiKey, mount>>

\* handleRetry
Retry ==
  /\ ResultShown
  /\ IsSome(lastConfig)
  /\ StartGenerate(Get(lastConfig))

\* handleApiKeyDialogContinue after openSelectKey, on the values of the render
\* the click happened in (App.tsx:141-148)
AfterSelect(rest, cap) ==
  IF IsSome(cap.pendingParams)
  THEN BeginAttempt(rest, Get(cap.pendingParams), TRUE, None)
  ELSE IF cap.appState = "ERROR" /\ IsSome(cap.lastConfig)
  THEN BeginAttempt(rest, Get(cap.lastConfig), TRUE, None)
  ELSE /\ appState' = "IDLE"
       /\ calls' = rest
       /\ UNCHANGED <<errorMessage, lastConfig, initialFormValues>>

Captured ==
  [pendingParams |-> pendingParams, appState |-> appState, lastConfig |-> lastConfig]

\* the Continue button of the dialog (App.tsx:133-137)
Continue ==
  /\ showApiKeyDialog
  /\ HasRoom
  /\ showApiKeyDialog' = FALSE
  /\ IF aistudio
     THEN /\ calls' = With(calls, [NewCall EXCEPT !.pc = "select", !.cap = Some(Captured)])
          /\ UNCHANGED <<appState, errorMessage, lastConfig, initialFormValues>>
     ELSE AfterSelect(calls, Captured)
  /\ UNCHANGED <<videoUrl, lastVideoObject, lastVideoBlob, pendingParams,
                 envVars, apiKey, mount>>

\* openSelectKey settles
SelectReturns ==
  \E c \in Running :
    /\ c.pc = "select"
    /\ AfterSelect(Without(c), Get(c.cap))
    /\ UNCHANGED <<videoUrl, lastVideoObject, lastVideoBlob, showApiKeyDialog,
                   pendingParams, envVars, apiKey, mount>>

\* handleNewVideo
NewVideoEffect ==
  /\ appState' = "IDLE"
  /\ videoUrl' = None
  /\ errorMessage' = None
  /\ lastConfig' = None
  /\ lastVideoObject' = None
  /\ lastVideoBlob' = None
  /\ initialFormValues' = None
  /\ pendingParams' = None
  /\ UNCHANGED <<showApiKeyDialog, envVars, apiKey, mount, calls>>

NewVideo ==
  /\ ResultShown
  /\ NewVideoEffect

\* handleTryAgainFromError without its setAppState(IDLE)
AdjustSettingsStaysInError ==
  /\ ErrorShown
  /\ initialFormValues' = lastConfig
  /\ errorMessage' = None
  /\ UNCHANGED <<appState, videoUrl, lastConfig, lastVideoObject, lastVideoBlob,
                 showApiKeyDialog, pendingParams, envVars, apiKey, mount, calls>>

\* handleTryAgainFromError, the Adjust Settings button
AdjustSettings ==
  /\ ErrorShown
  /\ IF IsSome(lastConfig)
     THEN /\ initialFormValues' = lastConfig
          /\ appState' = "IDLE"
          /\ errorMessage' = None
          /\ UNCHANGED <<videoUrl, lastConfig, lastVideoObject, lastVideoBlob,
                         showApiKeyDialog, pendingParams, envVars, apiKey,
                         mount, calls>>
     ELSE NewVideoEffect

\* the Switch API Key button (App.tsx:215)
SwitchApiKey ==
  /\ ErrorShown
  /\ showApiKeyDialog' = TRUE
  /\ UNCHANGED <<appState, videoUrl, errorMessage, lastConfig, lastVideoObject,
                 lastVideoBlob, pendingParams, initialFormValues, envVars,
                 apiKey, mount, calls>>

ExtendConfig(cfg, blob, video) ==
  [cfg EXCEPT !.mode = "EXTEND_VIDEO", !.prompt = "",
              !.inputVideo = Some([file |-> [name |-> "last_video.mp4",
                                             type |-> blob.type,
                                             bytes |-> blob.bytes],
                                   base64 |-> ""]),
              !.inputVideoObject = Some(video),
              !.resolution = "720p", !.startFrame = None, !.endFrame = None,
              !.referenceImages = Some(<< >>), !.styleImage = None,
              !.isLooping = FALSE]

\* handleExtend; the button is offered when canExtend (App.tsx:260)
Extend ==
  /\ ResultShown
  /\ IsSome(lastConfig) /\ Get(lastConfig).resolution = "720p"
  /\ IsSome(lastVideoBlob) /\ IsSome(lastVideoObject)
  /\ initialFormValues' =
       Some(ExtendConfig(Get(lastConfig), Get(lastVideoBlob), Get(lastVideoObject)))
  /\ appState' = "IDLE"
  /\ videoUrl' = None
  /\ errorMessage' = None
  /\ UNCHANGED <<lastConfig, lastVideoObject, lastVideoBlob, showApiKeyDialog,
                 pendingParams, envVars, apiKey, mount, calls>>

\* the host makes the selected key visible to the page
EnvKeyInjected ==
  /\ aistudio
  /\ apiKey # Some("KEY")
  /\ apiKey' = Some("KEY")
  /\ UNCHANGED <<appVars, envVars, mount, calls>>

Next ==
  \/ MountCheckReturns
  \/ Generate
  \/ Retry
  \/ Continue
  \/ NewVideo
  \/ AdjustSettings
  \/ SwitchApiKey
  \/ Extend
  \/ EnvKeyInjected
  \/ KeyCheckReturns
  \/ SelectReturns
  \/ SubmitReturns
  \/ SubmitFails
  \/ TimerFires
  \/ PollReturns
  \/ PollFails
  \/ FetchReturns
  \/ FetchFails
  \/ BodyReturns
  \/ BodyFails
  \/ GenSucceeded
  \/ GenFailed

Spec == Init /\ [][Next]_vars

\* the same application, with one more invocation allowed to overlap
InitRace ==
  /\ InitApp
  /\ aistudio \in BOOLEAN
  /\ apiKey \in {None, Some("KEY")}
  /\ variant \in Variants
  /\ remote = AppRemote
  /\ room = MaxRaceCalls
  /\ mount = IF aistudio THEN "pending" ELSE "done"
  /\ calls = EmptyBag

RaceSpec == InitRace /\ [][Next]_vars

\* the application with one handler invocation at a time, a remote service
\* that answers "not done" up to MaxPolls times, and the scheduling the
\* platform guarantees: a pending promise of the transport settles (the call
\* returns or fails), a due timer fires, and the continuation of a settled
\* promise runs
FairRemote == [AppRemote EXCEPT !.maxPending = MaxPolls]

InitFair ==
  /\ InitApp
  /\ aistudio \in BOOLEAN
  /\ apiKey \in {None, Some("KEY")}
  /\ variant \in Variants
  /\ remote = FairRemote
  /\ room = 1
  /\ mount = IF aistudio THEN "pending" ELSE "done"
  /\ calls = EmptyBag

Fairness ==
  /\ WF_vars(SubmitReturns \/ SubmitFails)
  /\ WF_vars(TimerFires)
  /\ WF_vars(PollReturns \/ PollFails)
  /\ WF_vars(FetchReturns \/ FetchFails)
  /\ WF_vars(BodyReturns \/ BodyFails)
  /\ WF_vars(GenSucceeded)
  /\ WF_vars(GenFailed)

FairSpec == InitFair /\ [][Next]_vars /\ Fairness

-----------------------------------------------------------------------------
(* generateVideo called directly, as a test of the service calls it *)

DirectCall(cfg) == [NewCall EXCEPT !.pc = "called", !.params = Some(cfg), !.direct = TRUE]

InitGen ==
  /\ InitApp
  /\ aistudio = FALSE
  /\ apiKey \in Keys
  /\ variant \in Variants
  /\ remote = RichRemote
  /\ room = 1
  /\ mount = "done"
  /\ \E cfg \in DirectConfigs : calls = SetToBag({DirectCall(cfg)})

\* the call runs to its first await
DirectGenerate ==
  \E c \in Running :
    /\ c.pc = "called"
    /\ CallStep(c, GenStart(c, apiKey, variant))

NextGen ==
  \/ DirectGenerate
  \/ SubmitReturns
  \/ SubmitFails
  \/ TimerFires
  \/ PollReturns
  \/ PollFails
  \/ FetchReturns
  \/ FetchFails
  \/ BodyReturns
  \/ BodyFails

GenSpec == InitGen /\ [][NextGen]_vars

\* the same, on every configuration, up to the first await
InitBuild ==
  /\ InitApp
  /\ aistudio = FALSE
  /\ apiKey \in Keys
  /\ variant \in Variants
  /\ remote = RichRemote
  /\ room = 1
  /\ mount = "done"
  /\ \E cfg \in Configs : calls = SetToBag({DirectCall(cfg)})

NextBuild == DirectGenerate

BuildSpec == InitBuild /\ [][NextBuild]_vars

-----------------------------------------------------------------------------
(* Properties *)

Started(c) == c.pc \notin {"new", "called", "keycheck", "select"}
Calls(c) == c.n.submit + c.n.poll + c.n.fetch

\* no credential: absent, empty or whitespace only
KeyMissing(k) == ~IsSome(k) \/ Get(k) \in {"", " "}

\* C1: a generateVideo call made with no credential configured rejects with
\* the missing-credential error and makes no submit, poll or fetch call.
C1_NoCredentialNoTransport ==
  \A c \in Running :
    Started(c) /\ KeyMissing(c.key) =>
      /\ c.pc = "rejected"
      /\ c.err \in {MissingKeyMsg, SdkKeyMsg}
      /\ Calls(c) = 0

\* C2: with a credential configured, a call for EXTEND_VIDEO without an input
\* video object rejects with the validation error and has made no submit,
\* poll or fetch call.
C2_ExtendNeedsVideo ==
  \A c \in Running :
    (/\ Started(c)
     /\ ~KeyMissing(c.key)
     /\ Get(c.params).mode = "EXTEND_VIDEO"
     /\ Get(c.params).inputVideoObject = None)
    => /\ c.pc = "rejected"
       /\ c.err = <<"An", "input", "video", "object", "is", "required", "to",
                    "extend", "a", "video.">>
       /\ Calls(c) = 0
       /\ c.sent = None

C2_Witness ==
  \E c \in Running :
    /\ c.pc = "rejected" /\ c.err = ValidationMsg /\ c.key = Some("KEY")
    /\ Get(c.params).mode = "EXTEND_VIDEO" /\ Get(c.params).prompt = "a cat"
    /\ Get(c.params).startFrame # None

InFlight(c) == c.pc \in {"submit", "sleep", "poll", "fetch", "blob"}

\* C3: at most one generateVideo call is unsettled at any time.
C3_AtMostOneInFlight ==
  /\ \A c \in Running : InFlight(c) => CopiesIn(c, calls) = 1
  /\ \A c, d \in Running : InFlight(c) /\ InFlight(d) => c = d

\* C4: the number of status polls sent equals the number of "not done" answers
\* observed (one less while the suspension for the latest answer lasts), each
\* poll follows one suspension, and a call that resolves has fetched once and
\* wraps the bytes the fetch delivered.
C4_OnePollPerNotDone ==
  \A c \in Running :
    /\ Started(c) => c.n.sleep = c.seen.notDone
    /\ c.pc = "sleep" => c.n.poll = c.seen.notDone - 1 /\ c.delay = 10000
    /\ Started(c) /\ c.pc # "sleep" => c.n.poll = c.seen.notDone
    /\ c.pc = "resolved" =>
         /\ c.n.fetch = 1
         /\ Get(c.res).blob.bytes = Get(c.seen.body)

C4_Witness ==
  \E c \in Running :
    /\ c.pc = "resolved" /\ c.seen.notDone = 2 /\ c.n.poll = 2 /\ c.n.fetch = 1
    /\ Get(c.res).blob.bytes = "mp4-bytes-2"

MissingCredentialMsgs == {MissingKeyMsg, SdkKeyMsg}

\* the handler of a settled call runs: the call leaves the bag
Handled(c) == calls' = Without(c)

\* C5: when an attempt started with skipKeyCheck fails with a missing-credential
\* message, its handler leaves the app IDLE, changes neither the error message
\* nor the dialog, and pre-fills the form with the attempted configuration.
C5_RaceSuppressed ==
  [][\A c \in Running :
       (c.pc = "rejected" /\ c.skip /\ c.err \in MissingCredentialMsgs /\ Handled(c))
       => /\ appState' = "IDLE"
          /\ errorMessage' = errorMessage
          /\ showApiKeyDialog' = showApiKeyDialog
          /\ initialFormValues' = c.params]_vars

C5_Witness ==
  /\ ~aistudio /\ apiKey = None
  /\ appState = "IDLE" /\ errorMessage = None /\ ~showApiKeyDialog
  /\ initialFormValues = Some(CfgText) /\ pendingParams = Some(CfgText)
  /\ calls = EmptyBag

CredentialMsgs ==
  MissingCredentialMsgs \cup
    {KeyNotValidMsg, EntityNotFoundMsg, PermissionMsg, UnauthenticatedMsg}

\* C6: the handler of a failed attempt that is not suppressed enters ERROR; on
\* a credential-related message it opens the dialog and stores the attempted
\* configuration in pendingParams; on any other message it shows the failure
\* message and leaves the dialog and pendingParams as they were.
C6_FailureRouting ==
  [][\A c \in Running :
       (/\ c.pc = "rejected" /\ Handled(c)
        /\ ~(c.skip /\ c.err \in MissingCredentialMsgs))
       => /\ appState' = "ERROR"
          /\ errorMessage' # None
          /\ IF c.err \in CredentialMsgs
             THEN showApiKeyDialog' /\ pendingParams' = c.params
             ELSE /\ Includes(Get(errorMessage'), c.err)
                  /\ showApiKeyDialog' = showApiKeyDialog
                  /\ pendingParams' = pendingParams]_vars

C6_Witness ==
  /\ appState = "ERROR" /\ showApiKeyDialog
  /\ pendingParams = Some(CfgText) /\ lastConfig = Some(CfgText)
  /\ errorMessage =
       Some(<<"A", "valid,", "paid", "API", "key", "is", "required", "for", "Veo",
              ".", "Please", "select", "one", "from", "the", "dialog", ".">>)

\* the completed operation carries no video: no response, no list, an empty list
EmptyResult(op) ==
  \/ op.response = None
  \/ Get(op.response).generatedVideos = None
  \/ Get(op.response).generatedVideos = Some(<< >>)

\* C7: a call whose operation completes without a video rejects with 'No videos
\* generated.', fetches nothing and creates no object URL.
C7_EmptyResultRejects ==
  \A c \in Running :
    (c.op # None /\ Get(c.op).done /\ EmptyResult(Get(c.op)))
    => /\ c.pc = "rejected"
       /\ c.err = <<"No", "videos", "generated.">>
       /\ c.n.fetch = 0 /\ c.n.handle = 0 /\ c.res = None

C7_Witness ==
  \E c \in Running :
    /\ c.pc = "rejected" /\ c.op = Some(DoneOp(Some(<< >>))) /\ c.n.poll = 1

\* C8: a call whose fetch answers with a status outside 200..299 rejects with
\* the download error naming that status, creates no object URL and yields no
\* artifact.
C8_DownloadErrorCarriesStatus ==
  \A c \in Running :
    (c.status # None /\ Get(c.status) \notin 200..299)
    => /\ c.pc = "rejected"
       /\ c.err = <<"Failed", "to", "fetch", "video:", NumToStr(Get(c.status))>>
       /\ c.n.handle = 0 /\ c.res = None

C8_Witness ==
  \E c \in Running :
    /\ c.pc = "rejected" /\ c.status = Some(403)
    /\ c.err = <<"Failed", "to", "fetch", "video:", "403">>

\* C9: a call submits at most once and fetches at most once, and once a remote
\* call of it has failed it is rejected with that failure and has made no
\* remote call since.
C9_NoRetry ==
  \A c \in Running :
    /\ c.n.submit <= 1
    /\ c.n.fetch <= 1
    /\ c.seen.fault # None =>
         /\ c.pc = "rejected"
         /\ c.err = Get(c.seen.fault).msg
         /\ c.n = Get(c.seen.fault).n

C9_Witness ==
  \E c \in Running :
    /\ c.pc = "rejected" /\ c.seen.fault # None
    /\ Get(c.seen.fault).msg = QuotaMsg /\ c.n.poll = 1 /\ c.n.submit = 1

\* C10: the submitted payload's config carries the input's aspectRatio when
\* the mode is not EXTEND_VIDEO and carries no aspectRatio when it is.
C10_AspectRatio ==
  \A c \in Running :
    c.sent # None =>
      IF Get(c.params).mode # "EXTEND_VIDEO"
      THEN /\ "aspectRatio" \in DOMAIN Get(c.sent).config
           /\ Get(c.sent).config.aspectRatio = Get(c.params).aspectRatio
      ELSE "aspectRatio" \notin DOMAIN Get(c.sent).config

C10_Witness ==
  \E c \in Running :
    /\ c.sent # None
    /\ Get(c.params).mode = "EXTEND_VIDEO"
    /\ Get(c.params).aspectRatio = "9:16"
    /\ DOMAIN Get(c.sent).config = {"numberOfVideos", "resolution"}

\* C11: for FRAMES_TO_VIDEO with isLooping, the submitted payload's last frame
\* equals its seed image, both being the start frame, and both are absent when
\* there is no start frame; the config's endFrame plays no part.
C11_LoopClosesOnStart ==
  \A c \in Running :
    (/\ c.sent # None
     /\ Get(c.params).mode = "FRAMES_TO_VIDEO"
     /\ Get(c.params).isLooping)
    => IF Get(c.params).startFrame = None
       THEN /\ "image" \notin DOMAIN Get(c.sent)
            /\ "lastFrame" \notin DOMAIN Get(c.sent).config
       ELSE /\ "image" \in DOMAIN Get(c.sent)
            /\ "lastFrame" \in DOMAIN Get(c.sent).config
            /\ Get(c.sent).config.lastFrame = Get(c.sent).image
            /\ Get(c.sent).image =
                 [imageBytes |-> Get(Get(c.params).startFrame).base64,
                  mimeType |-> Get(Get(c.params).startFrame).type]

C11_Witness ==
  \E c \in Running :
    /\ c.sent # None
    /\ Get(c.params).mode = "FRAMES_TO_VIDEO" /\ Get(c.params).isLooping
    /\ Get(c.params).startFrame = Some(ImgA) /\ Get(c.params).endFrame = Some(ImgB)
    /\ Get(c.sent).config.lastFrame = [imageBytes |-> "AAAA", mimeType |-> "image/png"]

\* the value the prompt is to show for an overlay field: the field's value when
\* the config has one, the documented default when it has none
Shown(o, d) == IF o = None THEN d ELSE Get(o)

\* C12: for SOCIAL_PROMO the synthesized prompt embeds promoText, promoPrice and
\* promoPercent whenever the config has them (an empty text and a percent of 0
\* included) and the defaults exactly when the field is absent, the percent
\* twice; the seed image is the start frame when one is given.
C12_PromoEmbedsPresent ==
  \A c \in Running :
    (c.sent # None /\ c.key = Some("KEY") /\ Get(c.params).mode = "SOCIAL_PROMO")
    => /\ "prompt" \in DOMAIN Get(c.sent)
       /\ Get(c.sent).prompt[2] = Shown(Get(c.params).promoText, "INGRESSO PROMOCIONAL R$50")
       /\ Get(c.sent).prompt[4] = Shown(Get(c.params).promoPrice, "EQUIPE CERTA")
       /\ Get(c.sent).prompt[6] = NumToStr(Shown(Get(c.params).promoPercent, 94))
       /\ Get(c.sent).prompt[9] = NumToStr(Shown(Get(c.params).promoPercent, 94))
       /\ Get(c.params).startFrame # None =>
            /\ "image" \in DOMAIN Get(c.sent)
            /\ Get(c.sent).image.imageBytes = Get(Get(c.params).startFrame).base64

\* C14: in the submitted payload a last frame appears only for FRAMES_TO_VIDEO,
\* a reference-image list only for REFERENCES_TO_VIDEO (non-empty, of the
\* config's length and order, each tagged as an asset), a source video only for
\* EXTEND_VIDEO and a seed image only for FRAMES_TO_VIDEO or SOCIAL_PROMO,
\* whatever optional fields the config carries.
C14_ModeDecidesAugmentation ==
  \A c \in Running :
    c.sent # None =>
      /\ "lastFrame" \in DOMAIN Get(c.sent).config =>
           Get(c.params).mode = "FRAMES_TO_VIDEO"
      /\ "referenceImages" \in DOMAIN Get(c.sent).config =>
           /\ Get(c.params).mode = "REFERENCES_TO_VIDEO"
           /\ Len(Get(c.sent).config.referenceImages) > 0
           /\ Len(Get(c.sent).config.referenceImages) =
                Len(Get(Get(c.params).referenceImages))
           /\ \A i \in 1..Len(Get(c.sent).config.referenceImages) :
                /\ Get(c.sent).config.referenceImages[i].image.imageBytes =
                     Get(Get(c.params).referenceImages)[i].base64
                /\ Get(c.sent).config.referenceImages[i].image.mimeType =
                     Get(Get(c.params).referenceImages)[i].type
                /\ Get(c.sent).config.referenceImages[i].referenceType = "ASSET"
      /\ "video" \in DOMAIN Get(c.sent) => Get(c.params).mode = "EXTEND_VIDEO"
      /\ "image" \in DOMAIN Get(c.sent) =>
           Get(c.params).mode \in {"FRAMES_TO_VIDEO", "SOCIAL_PROMO"}
      /\ Get(c.params).mode = "TEXT_TO_VIDEO" =>
           /\ DOMAIN Get(c.sent) \subseteq {"model", "config", "prompt"}
           /\ DOMAIN Get(c.sent).config = {"numberOfVideos", "resolution", "aspectRatio"}

C14_Witness ==
  \E c \in Running :
    /\ c.sent # None
    /\ Get(c.params).mode = "REFERENCES_TO_VIDEO"
    /\ Get(c.params).startFrame # None /\ Get(c.params).endFrame # None
    /\ Get(c.params).inputVideoObject # None /\ Get(c.params).isLooping
    /\ DOMAIN Get(c.sent) = {"model", "config", "prompt"}
    /\ DOMAIN Get(c.sent).config =
         {"numberOfVideos", "resolution", "aspectRatio", "referenceImages"}
    /\ Len(Get(c.sent).config.referenceImages) = 2


\* a generation attempt the application started
Attempt(c) == Started(c) /\ ~c.direct

\* the handler of a key query that starts no attempt: it stores the requested
\* configuration, opens the dialog and leaves the rest as it was
NoAttemptAfterQuery ==
  \A c \in Running :
    (c.pc = "keycheck" /\ calls' = Without(c))
    => /\ pendingParams' = c.params
       /\ showApiKeyDialog'
       /\ appState' = appState
       /\ lastConfig' = lastConfig
       /\ errorMessage' = errorMessage

\* C15 (as stated): every attempt started without skipKeyCheck follows a key
\* query of its own handleGenerate call, which the provider did not answer
\* with "no key selected"; the handler of a query that starts no attempt stores
\* the configuration in pendingParams, opens the dialog and leaves appState,
\* lastConfig and errorMessage unchanged.
C15_KeyCheckedFirst ==
  [][/\ \A d \in BagToSet(calls') :
          Attempt(d) /\ ~d.skip => d.refused = Some(FALSE)
     /\ NoAttemptAfterQuery]_vars

\* C15 (amended): the same, in a host that provides window.aistudio; in a
\* host without it no query is made.
C15_KeyCheckedWhereProvided ==
  [][/\ \A d \in BagToSet(calls') :
          Attempt(d) /\ ~d.skip =>
            d.refused = (IF aistudio THEN Some(FALSE) ELSE None)
     /\ NoAttemptAfterQuery]_vars

C15_Witness ==
  /\ aistudio /\ mount = "pending"
  /\ appState = "IDLE" /\ lastConfig = None /\ errorMessage = None
  /\ pendingParams = Some(CfgExtendBare) /\ showApiKeyDialog
  /\ calls = EmptyBag


Settled(c) == c.pc \in {"resolved", "rejected"}

\* a call that has submitted settles only on a failed remote call or on an
\* operation reported done, and waits the fixed interval before each poll
SettlesOnlyOnDoneOrFailure ==
  \A c \in Running :
    /\ (c.n.submit > 0 /\ Settled(c)) =>
         \/ c.seen.fault # None
         \/ c.op # None /\ Get(c.op).done
    /\ (c.op # None /\ ~Get(c.op).done) =>
         \/ c.pc \in {"sleep", "poll"}
         \/ c.pc = "rejected" /\ c.seen.fault # None
    /\ c.pc = "sleep" => c.delay = 10000

\* C16: a started call settles only when a remote call has failed or the
\* operation has been reported done, never by a timeout or an attempt ceiling;
\* and when every remote call returns and the operation is eventually reported
\* done, every call in flight eventually settles and the app leaves LOADING.
C16_SettlesIffDoneOrFailure ==
  /\ []SettlesOnlyOnDoneOrFailure
  /\ (\E c \in Running : InFlight(c)) ~> (\A c \in Running : ~InFlight(c))
  /\ (appState = "LOADING") ~> (appState # "LOADING")

C16_Witness ==
  /\ appState = "LOADING"
  /\ \E c \in Running :
       /\ ~c.direct /\ c.pc = "resolved"
       /\ c.seen.notDone = 2 /\ c.n.poll = 2 /\ c.seen.fault = None


\* the failures generateVideo raises itself that are no credential failures
GenericOwnMsgs ==
  {<<"An", "input", "video", "object", "is", "required", "to", "extend", "a", "video.">>,
   <<"No", "videos", "generated.">>}
  \cup {<<"Failed", "to", "fetch", "video:", NumToStr(s)>> : s \in {0, 403, 500}}

\* C17: the handler of an attempt rejected with generateVideo's own
\* missing-credential message opens the dialog and stores the configuration
\* (or, for an attempt that skipped the key check, returns to IDLE silently);
\* the handler of one rejected with the validation, empty-result or download
\* error enters ERROR showing 'Video generation failed: <message>' and touches
\* neither the dialog nor pendingParams.
C17_OwnMessagesRouted ==
  [][\A c \in Running :
       (c.pc = "rejected" /\ Handled(c))
       => /\ c.err \in MissingCredentialMsgs =>
               IF c.skip
               THEN /\ appState' = "IDLE"
                    /\ showApiKeyDialog' = showApiKeyDialog
                    /\ errorMessage' = errorMessage
               ELSE /\ appState' = "ERROR"
                    /\ showApiKeyDialog'
                    /\ pendingParams' = c.params
          /\ c.err \in GenericOwnMsgs =>
               /\ appState' = "ERROR"
               /\ errorMessage' = Some(<<"Video", "generation", "failed:">> \o c.err)
               /\ showApiKeyDialog' = showApiKeyDialog
               /\ pendingParams' = pendingParams]_vars

C17_Witness ==
  /\ appState = "ERROR" /\ ~showApiKeyDialog /\ pendingParams = None
  /\ errorMessage =
       Some(<<"Video", "generation", "failed:", "Failed", "to", "fetch", "video:", "403">>)

\* an attempt that this step starts
Fresh(d) ==
  /\ CopiesIn(d, calls') > CopiesIn(d, calls)
  /\ Attempt(d) /\ d.op = None /\ d.seen.fault = None

\* C18: the configuration an attempt started by Continue submits is that of
\* the latest handleGenerate call.  In a host without a key provider every
\* handleGenerate call starts an attempt and sets lastConfig, so the latest
\* request is what lastConfig holds when Continue acts.
C18_ContinueSubmitsLatest ==
  [][\A d \in BagToSet(calls') :
       (~aistudio /\ Fresh(d) /\ d.skip) => d.params = lastConfig]_vars

\* C19: in SUCCESS the video URL, the blob, the video object and the last
\* configuration are all set.
C19_SuccessComplete ==
  appState = "SUCCESS" =>
    /\ videoUrl # None
    /\ lastVideoBlob # None
    /\ lastVideoObject # None
    /\ lastConfig # None

\* C20: in ERROR there is an error message to render, and it is not empty.
C20_ErrorHasMessage ==
  appState = "ERROR" => errorMessage # None /\ Get(errorMessage) # << >>

C20_Witness ==
  /\ appState = "ERROR" /\ ~showApiKeyDialog
  /\ lastConfig = Some(CfgExtendBare)
  /\ errorMessage # None
  /\ ErrorShown
  /\ initialFormValues = None /\ pendingParams = Some(CfgText)


====
